---- MODULE Spec2Model ----
(***************************************************************************)
(* Navigation history of wrybrowser (src/src/lib.rs, struct History):      *)
(* a list of visited locations with a cursor, driven by push, back,        *)
(* forward and current.                                                     *)
(*                                                                         *)
(* entries is the Vec<String> (a TLA+ sequence, so Rust's entries[k] is    *)
(* entries[k+1] here); index is the usize cursor, 0-based as in the code.  *)
(* Option<String> values are <<"None">> and <<"Some", v>>.                 *)
(*                                                                         *)
(* Spec drives the History call by call, with the History of src/main.rs   *)
(* beside it; SpecAgent drives it through BrowserAgent::process_command    *)
(* (src/src/agent.rs); SpecUI drives it through the handlers of the        *)
(* browser window: toolbar messages, key presses and page loads.           *)
(***************************************************************************)
EXTENDS Integers, Sequences, FiniteSets, TLC

\* The location strings the callers pass in (opaque to History).
Locations == {"a", "b", "c", "d"}

\* Longest entry list explored; a push that would exceed it is not taken.
MaxEntries == 4

\* Calls past the end of a walk that the walk counters still tell apart.
MaxExtra == 2

None == <<"None">>
Some(v) == <<"Some", v>>
Unit == <<"()">>

Min(x, y) == IF x <= y THEN x ELSE y
Range(s) == {s[k] : k \in 1..Len(s)}

VARIABLES
    entries,    \* History.entries
    index,      \* History.index
    fault,      \* TRUE once a call has panicked (usize underflow)
    lastOp,     \* the most recent call: "new", "push", "back", "forward", "current"
    lastArg,    \* its argument: the seed (new), the url (push), else ""
    lastRet,    \* its return value
    pre,        \* [entries, index] as they were when the most recent call began
    trip,       \* progress of a back() immediately followed by forward()
    walk,       \* progress of a run of back() calls followed by forward() calls
    branch,     \* progress of back() from a 3-entry history followed by push(d)
    gone,       \* entries cut off by a completed branch and not pushed since
    seed,       \* the seed location given to History::new
    mainHistory, \* the History of src/main.rs, given the same calls: [entries, index, ret, fault]
    webview,    \* Browser.webview is Some
    loads,      \* URLs handed to load_url whose page load has not finished yet
    alt,        \* Browser.modifiers.alt_key()
    agent,      \* the latest command given to process_command and the state it met
    ui,         \* the latest navigation request of the UI and whether its page load followed
    quiet       \* the entries when only back/forward requests and their page loads remained

\* The History of src/lib.rs.
histVars == <<entries, index, fault>>

\* What the callers of the History have seen.
obsVars == <<lastOp, lastArg, lastRet, pre, trip, walk, branch, gone, seed, mainHistory>>

\* The Browser around the History and what its callers have seen.
browserVars == <<webview, loads, alt>>
agentVars == <<agent>>
uiVars == <<ui, quiet>>

vars == <<histVars, obsVars, browserVars, agentVars, uiVars>>

----------------------------------------------------------------------------
(* Vec and usize primitives used by History *)

\* Vec::get(i): Some(&v[i]) when i < len, else None.
Get(es, i) == IF i >= 0 /\ i < Len(es) THEN Some(es[i + 1]) ELSE None

\* Vec::truncate(n): keeps the first n elements; no effect when n >= len.
Truncate(es, n) == IF n < Len(es) THEN SubSeq(es, 1, n) ELSE es

\* usize subtraction x - y: underflow is a panic (overflow checks on) and
\* never a valid cursor; ok tells whether the result is a usize.
USub(x, y) == [ok |-> x >= y, val |-> IF x >= y THEN x - y ELSE x]

----------------------------------------------------------------------------
(* History's methods as functions of (entries, index); each returns the    *)
(* new entries and index, the value returned and whether the call panics.  *)

\* History::new.
new(initial) == [entries |-> <<initial>>, index |-> 0]

\* History::current.
current(es, i) == Get(es, i)

\* push without the early return for the current location.
push_always(es, i, url) ==
    LET p == Append(Truncate(es, i + 1), url)
        last == USub(Len(p), 1)
    IN  [entries |-> p, index |-> last.val, ret |-> Unit, fault |-> ~last.ok]

\* push without entries.truncate(idx + 1).
push_keep_forward(es, i, url) ==
    IF Get(es, i) = Some(url)
    THEN [entries |-> es, index |-> i, ret |-> Unit, fault |-> FALSE]
    ELSE LET p == Append(es, url)
             last == USub(Len(p), 1)
         IN  [entries |-> p, index |-> last.val, ret |-> Unit, fault |-> ~last.ok]

\* push without the final index.set.
push_no_move(es, i, url) ==
    IF Get(es, i) = Some(url)
    THEN [entries |-> es, index |-> i, ret |-> Unit, fault |-> FALSE]
    ELSE LET p == Append(Truncate(es, i + 1), url)
         IN  [entries |-> p, index |-> i, ret |-> Unit, fault |-> FALSE]

\* push setting index to entries.len() instead of entries.len() - 1.
push_next_index(es, i, url) ==
    IF Get(es, i) = Some(url)
    THEN [entries |-> es, index |-> i, ret |-> Unit, fault |-> FALSE]
    ELSE LET p == Append(Truncate(es, i + 1), url)
         IN  [entries |-> p, index |-> Len(p), ret |-> Unit, fault |-> FALSE]

\* push truncating to idx instead of idx + 1: the current entry is replaced.
push_replace_current(es, i, url) ==
    IF Get(es, i) = Some(url)
    THEN [entries |-> es, index |-> i, ret |-> Unit, fault |-> FALSE]
    ELSE LET p == Append(Truncate(es, i), url)
             last == USub(Len(p), 1)
         IN  [entries |-> p, index |-> last.val, ret |-> Unit, fault |-> ~last.ok]

\* History::push.
push(es, i, url) ==
    IF Get(es, i) = Some(url)
    THEN [entries |-> es, index |-> i, ret |-> Unit, fault |-> FALSE]
    ELSE LET t == Truncate(es, i + 1)
             p == Append(t, url)
             last == USub(Len(p), 1)
         IN  [entries |-> p, index |-> last.val, ret |-> Unit, fault |-> ~last.ok]

\* back without the test index > 0.
back_unguarded(es, i) ==
    LET d == USub(i, 1)
    IN  [entries |-> es, index |-> d.val,
         ret |-> IF d.ok THEN current(es, d.val) ELSE None, fault |-> ~d.ok]

\* back returning the location it left instead of the one it reached.
back_stale(es, i) ==
    IF i > 0
    THEN [entries |-> es, index |-> i - 1, ret |-> current(es, i), fault |-> FALSE]
    ELSE [entries |-> es, index |-> i, ret |-> None, fault |-> FALSE]

\* back dropping the entry it leaves, as a stack pop would.
back_pop(es, i) ==
    IF i > 0
    THEN [entries |-> Truncate(es, i), index |-> i - 1,
          ret |-> current(Truncate(es, i), i - 1), fault |-> FALSE]
    ELSE [entries |-> es, index |-> i, ret |-> None, fault |-> FALSE]

\* History::back.
back(es, i) ==
    IF i > 0
    THEN LET d == USub(i, 1)
         IN  [entries |-> es, index |-> d.val,
              ret |-> IF d.ok THEN current(es, d.val) ELSE None, fault |-> ~d.ok]
    ELSE [entries |-> es, index |-> i, ret |-> None, fault |-> FALSE]

\* forward testing index < len instead of index + 1 < len.
forward_off_by_one(es, i) ==
    IF i < Len(es)
    THEN [entries |-> es, index |-> i + 1, ret |-> current(es, i + 1), fault |-> FALSE]
    ELSE [entries |-> es, index |-> i, ret |-> None, fault |-> FALSE]

\* forward jumping to the last entry.
forward_to_end(es, i) ==
    IF i + 1 < Len(es)
    THEN [entries |-> es, index |-> Len(es) - 1,
          ret |-> current(es, Len(es) - 1), fault |-> FALSE]
    ELSE [entries |-> es, index |-> i, ret |-> None, fault |-> FALSE]

\* History::forward.
forward(es, i) ==
    IF i + 1 < Len(es)
    THEN [entries |-> es, index |-> i + 1, ret |-> current(es, i + 1), fault |-> FALSE]
    ELSE [entries |-> es, index |-> i, ret |-> None, fault |-> FALSE]

----------------------------------------------------------------------------
(* Command text.  A command or message is a sequence of one-character      *)
(* strings, and so is a location taken out of one.                         *)

\* Characters that str::trim removes (those that occur in the inputs).
Whitespace == {" ", "\n"}

STR_BACK == <<"b", "a", "c", "k">>
STR_FORWARD == <<"f", "o", "r", "w", "a", "r", "d">>
STR_GO_SPACE == <<"g", "o", " ">>

\* str::trim_start
RECURSIVE TrimStart(_)
TrimStart(s) ==
    IF s # <<>> /\ Head(s) \in Whitespace THEN TrimStart(Tail(s)) ELSE s

\* str::trim_end
RECURSIVE TrimEnd(_)
TrimEnd(s) ==
    IF s # <<>> /\ s[Len(s)] \in Whitespace THEN TrimEnd(SubSeq(s, 1, Len(s) - 1)) ELSE s

\* str::trim
Trim(s) == TrimEnd(TrimStart(s))

\* str::strip_prefix: Some(rest) when s starts with prefix, else None.
StripPrefix(s, prefix) ==
    IF Len(s) >= Len(prefix) /\ SubSeq(s, 1, Len(prefix)) = prefix
    THEN Some(SubSeq(s, Len(prefix) + 1, Len(s)))
    ELSE None

\* The result of a handler that leaves the History alone.
Untouched(es, i) == [entries |-> es, index |-> i, ret |-> Unit, fault |-> FALSE, load |-> None]

\* A History result together with the URL handed to load_url, if any.
WithLoad(r, url) ==
    [entries |-> r.entries, index |-> r.index, ret |-> r.ret, fault |-> r.fault, load |-> url]

\* process_command comparing the untrimmed command.
process_command_untrimmed(es, i, cmd) ==
    IF cmd = STR_BACK
    THEN LET r == back(es, i) IN WithLoad(r, r.ret)
    ELSE IF cmd = STR_FORWARD
    THEN LET r == forward(es, i) IN WithLoad(r, r.ret)
    ELSE IF StripPrefix(cmd, STR_GO_SPACE) # None
    THEN LET rest == StripPrefix(cmd, STR_GO_SPACE)[2]
         IN  WithLoad(push(es, i, rest), Some(rest))
    ELSE Untouched(es, i)

\* BrowserAgent::process_command on browser.history = (es, i); load is the
\* URL it hands to load_url when browser.webview is Some.
process_command(es, i, cmd) ==
    LET c == Trim(cmd)
    IN  IF c = STR_BACK
        THEN LET r == back(es, i) IN WithLoad(r, r.ret)
        ELSE IF c = STR_FORWARD
        THEN LET r == forward(es, i) IN WithLoad(r, r.ret)
        ELSE IF StripPrefix(c, STR_GO_SPACE) # None
        THEN LET rest == StripPrefix(c, STR_GO_SPACE)[2]
             IN  WithLoad(push(es, i, rest), Some(rest))
        ELSE Untouched(es, i)

----------------------------------------------------------------------------
(* The handlers Browser::resumed and Browser::window_event install         *)

STR_GO_COLON == <<"g", "o", ":">>

\* with_on_page_load_handler(move |event, url| ..): pushes on Finished.
on_page_load(es, i, event, url) ==
    IF event = "Finished" THEN WithLoad(push(es, i, url), None) ELSE Untouched(es, i)

\* with_ipc_handler(move |req| ..) of the toolbar, on req.body().
ipc_handler(es, i, body) ==
    IF body = STR_BACK
    THEN LET r == back(es, i) IN WithLoad(r, r.ret)
    ELSE IF body = STR_FORWARD
    THEN LET r == forward(es, i) IN WithLoad(r, r.ret)
    ELSE IF StripPrefix(body, STR_GO_COLON) # None
    THEN LET rest == StripPrefix(body, STR_GO_COLON)[2]
         IN  WithLoad(push(es, i, rest), Some(rest))
    ELSE Untouched(es, i)

\* Browser::window_event on a KeyboardInput event, with modifiers.alt_key()
\* = altKey.
keyboard_input(es, i, altKey, state, key) ==
    IF state = "Pressed"
    THEN IF key \in {"BrowserBack", "ArrowLeft"} /\ altKey
         THEN LET r == back(es, i) IN WithLoad(r, r.ret)
         ELSE IF key \in {"BrowserForward", "ArrowRight"} /\ altKey
         THEN LET r == forward(es, i) IN WithLoad(r, r.ret)
         ELSE Untouched(es, i)
    ELSE Untouched(es, i)

----------------------------------------------------------------------------
(* The History of the plain binary, src/main.rs, method by method *)

\* main.rs History::new.
main_new(initial_url) == [entries |-> <<initial_url>>, index |-> 0, ret |-> Unit, fault |-> FALSE]

\* main.rs History::current.
main_current(es, i) == Get(es, i)

\* main.rs push appending without entries.truncate(idx + 1).
main_push_keep_forward(es, i, url) ==
    IF Get(es, i) = Some(url)
    THEN [entries |-> es, index |-> i, ret |-> Unit, fault |-> FALSE]
    ELSE LET p == Append(es, url)
             last == USub(Len(p), 1)
         IN  [entries |-> p, index |-> last.val, ret |-> Unit, fault |-> ~last.ok]

\* main.rs History::push.
main_push(es, i, url) ==
    IF Get(es, i) = Some(url)
    THEN [entries |-> es, index |-> i, ret |-> Unit, fault |-> FALSE]
    ELSE LET t == Truncate(es, i + 1)
             p == Append(t, url)
             last == USub(Len(p), 1)
         IN  [entries |-> p, index |-> last.val, ret |-> Unit, fault |-> ~last.ok]

\* main.rs History::back.
main_back(es, i) ==
    IF i > 0
    THEN LET d == USub(i, 1)
         IN  [entries |-> es, index |-> d.val,
              ret |-> IF d.ok THEN main_current(es, d.val) ELSE None, fault |-> ~d.ok]
    ELSE [entries |-> es, index |-> i, ret |-> None, fault |-> FALSE]

\* main.rs History::forward.
main_forward(es, i) ==
    IF i + 1 < Len(es)
    THEN [entries |-> es, index |-> i + 1, ret |-> main_current(es, i + 1), fault |-> FALSE]
    ELSE [entries |-> es, index |-> i, ret |-> None, fault |-> FALSE]

----------------------------------------------------------------------------
(* Observers: what the callers of History have seen so far.  They record   *)
(* calls and results and never influence entries or index.                 *)

NoTrip == [phase |-> "none", entries |-> <<>>, index |-> 0, cur |-> None, ret |-> None]

\* A back() that returned Some starts a round trip from the state before it.
TripAfterBack(r) ==
    IF r.ret # None
    THEN [phase |-> "backed", entries |-> entries, index |-> index,
          cur |-> current(entries, index), ret |-> None]
    ELSE NoTrip

\* The forward() right after that back() completes the round trip.
TripAfterForward(r) ==
    IF trip.phase = "backed"
    THEN [trip EXCEPT !.phase = "returned", !.ret = r.ret]
    ELSE NoTrip

Count(ret) == IF ret # None THEN 1 ELSE 0

\* A walk starts in a state (es, start): backs/fwds count the back() and
\* forward() calls made since, okB/okF those that returned Some, ret is the
\* result of the latest one.  The call counters stop MaxExtra past the end.
WalkFrom(es, i) ==
    [es |-> es, start |-> i, backs |-> 0, fwds |-> 0, okB |-> 0, okF |-> 0, ret |-> Unit]

WalkAfterBack(r) ==
    IF walk.fwds = 0
    THEN [walk EXCEPT !.backs = Min(@ + 1, walk.start + MaxExtra),
                      !.okB = @ + Count(r.ret), !.ret = r.ret]
    ELSE [WalkFrom(entries, index) EXCEPT !.backs = 1, !.okB = Count(r.ret), !.ret = r.ret]

\* forward() continues the walk once the back() calls have covered the
\* whole way to the first entry; otherwise a new walk starts after it.
WalkAfterForward(r) ==
    IF walk.backs >= walk.start
    THEN [walk EXCEPT !.fwds = Min(@ + 1, Len(walk.es) - 1 + MaxExtra),
                      !.okF = @ + Count(r.ret), !.ret = r.ret]
    ELSE WalkFrom(r.entries, r.index)

NoBranch == [phase |-> "none", abc |-> <<>>, d |-> ""]

\* back() from a three-entry history with the cursor on the last entry.
BranchAfterBack(r) ==
    IF Len(entries) = 3 /\ index = 2 /\ r.ret # None
    THEN [phase |-> "backed", abc |-> entries, d |-> ""]
    ELSE NoBranch

\* ... followed by push(d) with d none of the three entries.
BranchAfterPush(url) ==
    IF branch.phase = "backed" /\ url \notin Range(branch.abc)
    THEN [branch EXCEPT !.phase = "pushed", !.d = url]
    ELSE NoBranch

\* The entry c cut off by a completed branch, with the a and b it followed,
\* until c is pushed again.
GoneAfterPush(url) ==
    LET cut == IF branch.phase = "backed" /\ url \notin Range(branch.abc)
               THEN {[a |-> branch.abc[1], b |-> branch.abc[2], c |-> branch.abc[3]]}
               ELSE {}
    IN  {g \in gone \cup cut : g.c # url}

\* No navigation request of the UI is being followed.
NoRequest == [kind |-> "none", url |-> <<>>, entries |-> <<>>, index |-> 0, before |-> <<>>]

\* No command has been processed yet.
NoCommand == [kind |-> "none", loc |-> <<>>, text |-> <<>>, entries |-> <<>>, index |-> 0]

----------------------------------------------------------------------------
(* The state machine: one action per call on the History *)

\* Browser { webview: None, history: Rc::new(History::new(x)), .. }
InitWith(x) ==
    LET h == new(x)
    IN  /\ entries = h.entries
        /\ index = h.index
        /\ fault = FALSE
        /\ lastOp = "new"
        /\ lastArg = x
        /\ lastRet = Unit
        /\ pre = [entries |-> h.entries, index |-> h.index]
        /\ trip = NoTrip
        /\ walk = WalkFrom(h.entries, h.index)
        /\ branch = NoBranch
        /\ gone = {}
        /\ seed = x
        /\ mainHistory = main_new(x)
        /\ webview = FALSE
        /\ loads = <<>>
        /\ alt = FALSE
        /\ agent = NoCommand
        /\ ui = NoRequest
        /\ quiet = [on |-> TRUE, entries |-> h.entries]

Init == \E x \in Locations : InitWith(x)

PushCall(url) ==
    LET r == push(entries, index, url)
    IN  /\ ~fault
        /\ Len(r.entries) <= MaxEntries
        /\ entries' = r.entries
        /\ index' = r.index
        /\ fault' = r.fault
        /\ lastOp' = "push"
        /\ lastArg' = url
        /\ lastRet' = r.ret
        /\ pre' = [entries |-> entries, index |-> index]
        /\ trip' = NoTrip
        /\ walk' = WalkFrom(r.entries, r.index)
        /\ branch' = BranchAfterPush(url)
        /\ gone' = GoneAfterPush(url)
        /\ seed' = seed
        /\ mainHistory' = main_push(mainHistory.entries, mainHistory.index, url)
        /\ UNCHANGED <<browserVars, agentVars, uiVars>>

BackCall ==
    LET r == back(entries, index)
    IN  /\ ~fault
        /\ entries' = r.entries
        /\ index' = r.index
        /\ fault' = r.fault
        /\ lastOp' = "back"
        /\ lastArg' = ""
        /\ lastRet' = r.ret
        /\ pre' = [entries |-> entries, index |-> index]
        /\ trip' = TripAfterBack(r)
        /\ walk' = WalkAfterBack(r)
        /\ branch' = BranchAfterBack(r)
        /\ gone' = gone
        /\ seed' = seed
        /\ mainHistory' = main_back(mainHistory.entries, mainHistory.index)
        /\ UNCHANGED <<browserVars, agentVars, uiVars>>

ForwardCall ==
    LET r == forward(entries, index)
    IN  /\ ~fault
        /\ entries' = r.entries
        /\ index' = r.index
        /\ fault' = r.fault
        /\ lastOp' = "forward"
        /\ lastArg' = ""
        /\ lastRet' = r.ret
        /\ pre' = [entries |-> entries, index |-> index]
        /\ trip' = TripAfterForward(r)
        /\ walk' = WalkAfterForward(r)
        /\ branch' = NoBranch
        /\ gone' = gone
        /\ seed' = seed
        /\ mainHistory' = main_forward(mainHistory.entries, mainHistory.index)
        /\ UNCHANGED <<browserVars, agentVars, uiVars>>

\* current() only reads; the observers of call sequences look through it.
CurrentCall ==
    /\ ~fault
    /\ lastOp' = "current"
    /\ lastArg' = ""
    /\ lastRet' = current(entries, index)
    /\ pre' = [entries |-> entries, index |-> index]
    /\ trip' = NoTrip
    /\ mainHistory' = [mainHistory EXCEPT !.ret = main_current(mainHistory.entries, mainHistory.index)]
    /\ UNCHANGED <<entries, index, fault, walk, branch, gone, seed>>
    /\ UNCHANGED <<browserVars, agentVars, uiVars>>

Next ==
    \/ \E url \in Locations : PushCall(url)
    \/ BackCall
    \/ ForwardCall
    \/ CurrentCall

Spec == Init /\ [][Next]_vars

----------------------------------------------------------------------------
(* Properties *)

PreCurrent == current(pre.entries, pre.index)

\* C1: in every reachable state entries is non-empty and 0 <= index <
\* len(entries); current() is then entries[index], and no current() call
\* has returned None.
ValidCursor ==
    /\ Len(entries) >= 1
    /\ index >= 0
    /\ index < Len(entries)
    /\ current(entries, index) # None
    /\ current(entries, index) = Some(entries[index + 1])
    /\ lastOp = "current" => lastRet # None /\ lastRet = Get(entries, index)

\* A current() call answered from the middle of a history.
ValidCursorWitness ==
    /\ lastOp = "current"
    /\ Len(entries) >= 3
    /\ index > 0
    /\ index < Len(entries) - 1
    /\ lastRet = Some(entries[index + 1])

\* C2: push(L) with L the current location changes neither entries nor
\* index nor current(), wherever the cursor is.
PushCurrentIsNoOp ==
    (lastOp = "push" /\ PreCurrent = Some(lastArg)) =>
        /\ entries = pre.entries
        /\ index = pre.index
        /\ current(entries, index) = PreCurrent

\* push(L) of the current location with forward entries present.
PushCurrentMidHistory ==
    /\ lastOp = "push"
    /\ PreCurrent = Some(lastArg)
    /\ pre.index + 1 < Len(pre.entries)
    /\ pre.index > 0

\* C3: push(loc) with loc different from the current location yields
\* entries[0..=index] followed by loc, with the cursor on loc at
\* index + 1 = len - 1.
PushTruncatesAndAppends ==
    (lastOp = "push" /\ PreCurrent # Some(lastArg)) =>
        /\ entries = Append(SubSeq(pre.entries, 1, pre.index + 1), lastArg)
        /\ index = Len(entries) - 1
        /\ index = pre.index + 1

\* A push of a new location that discarded at least two forward entries.
PushDiscardedForward ==
    /\ lastOp = "push"
    /\ PreCurrent # Some(lastArg)
    /\ pre.index + 2 < Len(pre.entries)
    /\ pre.index > 0
    /\ Len(entries) < Len(pre.entries)

\* C4 as stated: after any push the cursor is on the last entry and a
\* following forward() returns None.
PushAlwaysAtEnd ==
    lastOp = "push" =>
        /\ index = Len(entries) - 1
        /\ forward(entries, index).ret = None

\* C4 as amended: after any push the cursor is on the last entry and a
\* following forward() returns None, except after a push of the location
\* that was already current while forward entries existed.
PushAtEndUnlessNoOp ==
    (lastOp = "push" /\ ~(PreCurrent = Some(lastArg) /\ pre.index + 1 < Len(pre.entries))) =>
        /\ index = Len(entries) - 1
        /\ forward(entries, index).ret = None

\* A push from the middle of the history that moved the cursor to the end.
PushMovedToEnd ==
    /\ lastOp = "push"
    /\ pre.index + 1 < Len(pre.entries)
    /\ PreCurrent # Some(lastArg)
    /\ index = Len(entries) - 1

\* C5: back() with index > 0 decrements index by one and returns
\* Some(entries[index - 1]), which current() then returns too; with
\* index = 0 it returns None and changes nothing.
BackContract ==
    lastOp = "back" =>
        IF pre.index > 0
        THEN /\ index = pre.index - 1
             /\ lastRet = Get(pre.entries, pre.index - 1)
             /\ lastRet # None
             /\ lastRet = current(entries, index)
        ELSE /\ lastRet = None
             /\ entries = pre.entries
             /\ index = pre.index

\* A run of back() calls that succeeded twice and then returned None.
BackBothCases ==
    /\ lastOp = "back"
    /\ pre.index = 0
    /\ lastRet = None
    /\ walk.fwds = 0
    /\ walk.okB >= 2

\* C6: forward() with index + 1 < len(entries) increments index by one and
\* returns Some(entries[index + 1]), which current() then returns too; with
\* index = len(entries) - 1 it returns None and changes nothing.
ForwardContract ==
    lastOp = "forward" =>
        IF pre.index + 1 < Len(pre.entries)
        THEN /\ index = pre.index + 1
             /\ lastRet = Get(pre.entries, pre.index + 1)
             /\ lastRet # None
             /\ lastRet = current(entries, index)
        ELSE /\ lastRet = None
             /\ entries = pre.entries
             /\ index = pre.index

\* A run of forward() calls that succeeded twice and then returned None.
ForwardBothCases ==
    /\ lastOp = "forward"
    /\ pre.index = Len(pre.entries) - 1
    /\ lastRet = None
    /\ walk.okF >= 2

\* C7: a back() that succeeds, followed immediately by forward(): the
\* forward() succeeds and entries, index and current() are what they were
\* before the back().
BackForwardRoundTrip ==
    trip.phase = "returned" =>
        /\ trip.ret # None
        /\ current(entries, index) = trip.cur
        /\ entries = trip.entries
        /\ index = trip.index

\* A round trip made from the middle of a history.
RoundTripWitness ==
    /\ trip.phase = "returned"
    /\ lastOp = "forward"
    /\ trip.index > 1
    /\ trip.index + 1 < Len(trip.entries)

\* What holds right after back() from [a,b,c] at c and then push(d).
BranchOutcome ==
    branch.phase = "pushed" =>
        /\ entries = <<branch.abc[1], branch.abc[2], branch.d>>
        /\ index = 2
        /\ current(entries, index) = Some(branch.d)
        /\ forward(entries, index).ret = None

\* C8 as stated: from [a,b,c] with the cursor at c, back() then push(d), d
\* none of a, b, c, gives exactly [a,b,d] with the cursor at d and nothing
\* forward, and until c is pushed again current() is never c.
BranchTruncation ==
    /\ BranchOutcome
    /\ \A g \in gone : current(entries, index) # Some(g.c)

\* C8 as amended: the same for a, b, c three different locations (the
\* history may hold one location twice, as in [a,b,a]).
BranchTruncationDistinct ==
    /\ BranchOutcome
    /\ \A g \in gone : g.c # g.a => current(entries, index) # Some(g.c)

\* After a branch cut off c, the history was walked back to its first entry
\* and forward to its last one.
BranchWalkedWitness ==
    /\ \E g \in gone : g.c # g.a /\ g.c # g.b /\ entries[1] = g.a /\ entries[2] = g.b
    /\ Len(entries) = 3
    /\ lastOp = "forward"
    /\ lastRet = None
    /\ walk.okB = 2
    /\ walk.okF = 2

\* C9: from n entries with the cursor at i, back() succeeds exactly i times,
\* returning entries[i-1], ..., entries[0], and then returns None with
\* current() = entries[0]; after that forward() succeeds exactly n-1 times,
\* returning entries[1], ..., entries[n-1], and then returns None with
\* current() = entries[n-1].
WalkWholeHistory ==
    LET e == walk.es
        n == Len(walk.es)
        i == walk.start
        k == walk.backs
        m == walk.fwds
    IN  /\ (m = 0 /\ k > 0) =>
              /\ walk.okB = Min(k, i)
              /\ walk.ret = IF k <= i THEN Some(e[i - k + 1]) ELSE None
              /\ k >= i => current(entries, index) = Some(e[1])
        /\ m > 0 =>
              /\ walk.okB = i
              /\ walk.okF = Min(m, n - 1)
              /\ walk.ret = IF m <= n - 1 THEN Some(e[m + 1]) ELSE None
              /\ m >= n - 1 => current(entries, index) = Some(e[n])

\* A walk from the last of at least three entries, back past the first
\* entry and forward past the last one.
WalkWitness ==
    /\ Len(walk.es) >= 3
    /\ walk.start = Len(walk.es) - 1
    /\ walk.backs > walk.start
    /\ walk.fwds > Len(walk.es) - 1
    /\ lastOp = "forward"

\* C10: no call panics: the cursor is never decremented below 0, push
\* never takes len - 1 of an empty list, and the only failure any call
\* reports is None from back() or forward(), which changes nothing.
NoFault ==
    /\ fault = FALSE
    /\ index >= 0
    /\ (lastOp = "back" /\ pre.index = 0) => index = 0
    /\ lastOp = "push" => Len(entries) >= 1 /\ lastRet = Unit
    /\ lastRet = None =>
          /\ lastOp \in {"back", "forward"}
          /\ entries = pre.entries
          /\ index = pre.index

\* back() at index 0 and later forward() at the last index, both answered
\* None, with successful moves in between.
NoFaultWitness ==
    /\ lastOp = "forward"
    /\ lastRet = None
    /\ walk.backs > walk.start
    /\ walk.okB >= 1
    /\ walk.okF >= 1
    /\ fault = FALSE

\* C11: only push modifies the entry list: back(), forward() and current()
\* leave entries as it was, whether they succeed or not, and current()
\* leaves index as it was too.
OnlyPushChangesEntries ==
    lastOp \in {"back", "forward", "current"} =>
        /\ entries = pre.entries
        /\ lastOp = "current" => index = pre.index

\* A back() that succeeded with two entries ahead of the cursor it left.
BackKeptForwardEntries ==
    /\ lastOp = "back"
    /\ lastRet # None
    /\ pre.index + 2 < Len(pre.entries)
    /\ Len(entries) = Len(pre.entries)

\* C15: no two adjacent entries are equal.
NoAdjacentDuplicates ==
    \A k \in 1..(Len(entries) - 1) : entries[k] # entries[k + 1]

\* A push of the current location into a history that holds one location
\* twice, two entries apart.
RepeatedLocationApart ==
    /\ lastOp = "push"
    /\ PreCurrent = Some(lastArg)
    /\ Len(entries) >= 3
    /\ entries[1] = entries[3]

\* C16: the first entry is always the seed given to new, and no call
\* changes or removes an entry at a position up to the cursor position it
\* was called at.
SeedAndPrefixKept ==
    /\ Len(entries) >= 1
    /\ entries[1] = seed
    /\ lastOp \in {"push", "back", "forward", "current"} =>
          /\ Len(entries) > pre.index
          /\ \A k \in 1..(pre.index + 1) : entries[k] = pre.entries[k]

\* A push of a new location from the seed, with two entries ahead of it.
PushFromSeed ==
    /\ lastOp = "push"
    /\ pre.index = 0
    /\ Len(pre.entries) >= 3
    /\ lastArg # seed
    /\ entries = <<seed, lastArg>>

\* C17: given the same calls from new(x), the History of src/main.rs has
\* returned what the History of src/lib.rs has returned and holds the same
\* entries and index.
SameAsMainHistory ==
    /\ mainHistory.entries = entries
    /\ mainHistory.index = index
    /\ mainHistory.fault = fault
    /\ mainHistory.ret = lastRet

\* Both histories after a push that cut off forward entries, a back() and a
\* forward() that returned None.
BothHistoriesWitness ==
    /\ lastOp = "forward"
    /\ lastRet = None
    /\ mainHistory.ret = None
    /\ Len(mainHistory.entries) >= 3
    /\ walk.okB >= 1
    /\ gone # {}

----------------------------------------------------------------------------
(* The command-driven agent: process_command on a Browser built as in      *)
(* tests/browser.rs, with webview None.                                    *)

\* Locations the agent is asked to go to; the last one is what "go  a",
\* with two spaces, asks for.
AgentLocations == {<<"a">>, <<"b">>, <<" ", "a">>}

\* Whitespace before and after a command as it is typed or read from a line.
Padding == {<< <<>>, <<>> >>, << <<>>, <<"\n">> >>, << <<" ">>, <<>> >>, << <<" ">>, <<" ", "\n">> >>}

\* The words of a command: what it is meant to do, and its text.
CommandWords ==
    {[kind |-> "back", loc |-> <<>>, text |-> STR_BACK],
     [kind |-> "forward", loc |-> <<>>, text |-> STR_FORWARD]}
    \cup {[kind |-> "go", loc |-> l, text |-> STR_GO_SPACE \o l] : l \in AgentLocations}
    \cup {[kind |-> "other", loc |-> <<>>, text |-> t] :
            t \in {<<>>, <<"g", "o">>, <<"g", "o", "a">>, <<"g", "o", ":", "a">>,
                   <<"B", "a", "c", "k">>, <<"b", "a", "c", "k", " ", "a">>,
                   <<"f", "o", "r", "w", "a", "r", "d", "s">>}}

\* The commands given to the agent: the words with whitespace around them.
AgentCommands ==
    {[kind |-> w.kind, loc |-> w.loc, text |-> p[1] \o w.text \o p[2]] :
        w \in CommandWords, p \in Padding}

\* agent.process_command(&mut browser, cmd)
AgentCommand(c) ==
    LET r == process_command(entries, index, c.text)
    IN  /\ ~fault
        /\ Len(r.entries) <= MaxEntries
        /\ entries' = r.entries
        /\ index' = r.index
        /\ fault' = r.fault
        /\ loads' = IF webview /\ r.load # None THEN Append(loads, r.load[2]) ELSE loads
        /\ agent' = [kind |-> c.kind, loc |-> c.loc, text |-> c.text,
                     entries |-> entries, index |-> index]
        /\ UNCHANGED <<obsVars, webview, alt, uiVars>>

AgentInit == \E x \in AgentLocations : InitWith(x)

AgentNext == \E c \in AgentCommands : AgentCommand(c)

SpecAgent == AgentInit /\ [][AgentNext]_vars

\* The entries and index a History result holds.
StateOf(r) == <<r.entries, r.index>>

\* C12: process_command does to browser.history what the History call its
\* command stands for does: "back" as back(), "forward" as forward(),
\* "go <loc>" as push(<loc>), after which current() is <loc>, whatever the
\* whitespace around the command, and any other command changes nothing.
AgentActsAsHistory ==
    /\ agent.kind = "back" => <<entries, index>> = StateOf(back(agent.entries, agent.index))
    /\ agent.kind = "forward" => <<entries, index>> = StateOf(forward(agent.entries, agent.index))
    /\ agent.kind = "go" =>
          /\ <<entries, index>> = StateOf(push(agent.entries, agent.index, agent.loc))
          /\ current(entries, index) = Some(agent.loc)
    /\ agent.kind = "other" => <<entries, index>> = <<agent.entries, agent.index>>

\* A "go" command with whitespace on both sides that cut off forward
\* entries.
AgentGoWitness ==
    /\ agent.kind = "go"
    /\ Head(agent.text) \in Whitespace
    /\ agent.text[Len(agent.text)] \in Whitespace
    /\ agent.index + 1 < Len(agent.entries)
    /\ Len(entries) = agent.index + 2
    /\ current(entries, index) = Some(agent.loc)

----------------------------------------------------------------------------
(* The browser window: toolbar messages, key presses and page loads        *)
(* arriving one at a time on the event loop.  A load_url call is answered  *)
(* later by a page load of that URL; loads holds those not yet answered,   *)
(* in the order of the calls.                                              *)

\* Page loads waiting for their Finished event at most.
MaxLoads == 2

UILocations == {<<"a">>, <<"b">>, <<"c">>}

\* Messages the toolbar posts, and some it does not: what each is meant to
\* do, and its body.
ToolbarMessages ==
    {[kind |-> "back", text |-> STR_BACK], [kind |-> "forward", text |-> STR_FORWARD]}
    \cup {[kind |-> "go", text |-> STR_GO_COLON \o u] : u \in UILocations}
    \cup {[kind |-> "other", text |-> t] :
            t \in {<<>>, <<" ">> \o STR_BACK, STR_GO_SPACE \o <<"a">>}}

\* Key events: each key pressed, and one released.
KeyEvents ==
    {<<"Pressed", k>> : k \in {"BrowserBack", "ArrowLeft", "BrowserForward", "ArrowRight", "Enter"}}
    \cup {<<"Released", "ArrowLeft">>}

\* Whether the handler's result r handed a URL to load_url.
Issued(r) == webview /\ r.load # None

\* The pending loads after a handler with result r.
LoadsAfter(r) == IF Issued(r) THEN Append(loads, r.load[2]) ELSE loads

\* After a request: "nav" for a back/forward that loads a URL, "go" for a
\* toolbar go, with the state it left and the entries it met.
RequestSeen(kind, r) ==
    IF Issued(r)
    THEN [kind |-> kind, url |-> r.load[2], entries |-> r.entries, index |-> r.index,
          before |-> entries]
    ELSE NoRequest

\* After a page load of url: it answers the request if it comes right after
\* it and carries its URL.
PageLoadSeen(url) ==
    IF ui.kind \in {"nav", "go"} /\ ui.url = url
    THEN [ui EXCEPT !.kind = IF ui.kind = "nav" THEN "nav answered" ELSE "go answered"]
    ELSE NoRequest

\* quiet.on holds while, since a moment with no page load pending, only
\* back/forward requests and the page loads they asked for have happened;
\* quiet.entries is the entry list of that moment.
QuietAfter(disturbed, es, ls) ==
    IF ls = <<>> /\ (disturbed \/ ~quiet.on)
    THEN [on |-> TRUE, entries |-> es]
    ELSE IF disturbed THEN [on |-> FALSE, entries |-> <<>>] ELSE quiet

\* Browser::resumed: builds the webview on history.current(), whose page
\* load is then pending, and the toolbar.
Resumed ==
    /\ ~webview
    /\ webview' = TRUE
    /\ loads' = <<IF current(entries, index) # None THEN current(entries, index)[2]
                  ELSE <<"about:blank">> >>
    /\ ui' = NoRequest
    /\ quiet' = QuietAfter(TRUE, entries, loads')
    /\ UNCHANGED <<histVars, obsVars, alt, agentVars>>

\* The toolbar posts a message to its ipc handler.
ToolbarMessage(m) ==
    LET r == ipc_handler(entries, index, m.text)
    IN  /\ ~fault
        /\ webview
        /\ Len(r.entries) <= MaxEntries
        /\ Len(LoadsAfter(r)) <= MaxLoads
        /\ entries' = r.entries
        /\ index' = r.index
        /\ fault' = r.fault
        /\ loads' = LoadsAfter(r)
        /\ ui' = IF m.kind = "go" THEN RequestSeen("go", r)
                 ELSE IF m.kind \in {"back", "forward"} THEN RequestSeen("nav", r)
                 ELSE ui
        /\ quiet' = QuietAfter(m.kind = "go", r.entries, loads')
        /\ UNCHANGED <<obsVars, webview, alt, agentVars>>

\* Browser::window_event, WindowEvent::KeyboardInput.
KeyboardInput(state, key) ==
    LET r == keyboard_input(entries, index, alt, state, key)
        asks == state = "Pressed" /\ alt /\ key # "Enter"
    IN  /\ ~fault
        /\ Len(LoadsAfter(r)) <= MaxLoads
        /\ entries' = r.entries
        /\ index' = r.index
        /\ fault' = r.fault
        /\ loads' = LoadsAfter(r)
        /\ ui' = IF asks THEN RequestSeen("nav", r) ELSE ui
        /\ quiet' = QuietAfter(FALSE, r.entries, loads')
        /\ UNCHANGED <<obsVars, webview, alt, agentVars>>

\* Browser::window_event, WindowEvent::ModifiersChanged.
ModifiersChanged(altKey) ==
    /\ alt' = altKey
    /\ UNCHANGED <<histVars, obsVars, webview, loads, agentVars, uiVars>>

\* The page asked for by the oldest pending load_url has loaded: the
\* page-load handler sees Started, then Finished, with its URL.
PageLoaded ==
    LET url == Head(loads)
        s == on_page_load(entries, index, "Started", url)
        r == on_page_load(s.entries, s.index, "Finished", url)
    IN  /\ ~fault
        /\ webview
        /\ loads # <<>>
        /\ Len(r.entries) <= MaxEntries
        /\ entries' = r.entries
        /\ index' = r.index
        /\ fault' = r.fault
        /\ loads' = Tail(loads)
        /\ ui' = PageLoadSeen(url)
        /\ quiet' = QuietAfter(FALSE, r.entries, loads')
        /\ UNCHANGED <<obsVars, webview, alt, agentVars>>

\* The user follows a link in the page: a page load nobody asked for
\* through load_url.
LinkFollowed(url) ==
    LET s == on_page_load(entries, index, "Started", url)
        r == on_page_load(s.entries, s.index, "Finished", url)
    IN  /\ ~fault
        /\ webview
        /\ Len(r.entries) <= MaxEntries
        /\ entries' = r.entries
        /\ index' = r.index
        /\ fault' = r.fault
        /\ ui' = PageLoadSeen(url)
        /\ quiet' = QuietAfter(TRUE, r.entries, loads)
        /\ UNCHANGED <<obsVars, webview, loads, alt, agentVars>>

UIInit == \E x \in UILocations : InitWith(x)

UINext ==
    \/ Resumed
    \/ \E m \in ToolbarMessages : ToolbarMessage(m)
    \/ \E e \in KeyEvents : KeyboardInput(e[1], e[2])
    \/ \E altKey \in BOOLEAN : ModifiersChanged(altKey)
    \/ PageLoaded
    \/ \E url \in UILocations : LinkFollowed(url)

SpecUI == UIInit /\ [][UINext]_vars

\* C13: when a back/forward request or a toolbar go is followed, before any
\* other history call, by the page load carrying its URL, the push of that
\* page load changes nothing: the state is the one the request left, back
\* and forward still have the entries ahead of them, and a go has added at
\* most one entry.
PageLoadAfterRequestIsNoOp ==
    ui.kind \in {"nav answered", "go answered"} =>
        /\ entries = ui.entries
        /\ index = ui.index
        /\ ui.kind = "nav answered" => entries = ui.before
        /\ ui.kind = "go answered" => Len(entries) <= Len(ui.before) + 1

\* A back request from the last of three entries, answered by its page
\* load.
BackAnsweredWitness ==
    /\ ui.kind = "nav answered"
    /\ Len(ui.before) >= 3
    /\ index + 1 < Len(entries)
    /\ index > 0
    /\ loads = <<>>

\* C14: while only back/forward requests and the page loads they asked for
\* happen, in request order but each possibly after later requests, the
\* entry list stays what it was before the first request.
NavigationKeepsEntries ==
    quiet.on => entries = quiet.entries

====
